---- MODULE Spec2Model ----
(***************************************************************************)
(* A model of fecs: the dense store (vector_store), the sparse store       *)
(* (unordered_map_store), the world that composes stores, the map result   *)
(* protocol (setMapResult) and mapEntities.                                *)
(*                                                                         *)
(* SpecStore replays every store operation on a dense and a sparse store,  *)
(* Spec is world<vector_store<int>, vector_store<float>>, SpecCopy adds    *)
(* its copy construction, and SpecTuple is a world over one store of each  *)
(* kind.                                                                   *)
(*                                                                         *)
(* An EntityId is a natural number.  std::optional<T> is modelled as a     *)
(* sequence of length at most one: << >> is std::nullopt, <<v>> holds v.   *)
(* A std::vector is a sequence; slot id of the vector is element id + 1.   *)
(* A std::unordered_map is a function whose DOMAIN is its key set.         *)
(***************************************************************************)
EXTENDS Naturals, Sequences, FiniteSets, TLC

\* ------------------------------------------------------------------ bounds
\* Entity ids handed to the store operations are 0..MaxId.
MaxId == 1
\* newEntity is called at most MaxEntities times on a world.
MaxEntities == 2
\* At most MaxCopyOps operations are applied to the copy of a world.
MaxCopyOps == 1

Ids == 0..MaxId
\* A dense store is never grown beyond the slots of the ids 0..MaxId
\* (moveComponent inserts a slot on every call, so its growth has to be capped).
MaxLen == MaxId + 1
\* The component values.  No store and no world operation inspects a component
\* value (values are copied, moved and handed to the transform), so two distinct
\* values stand for all: the 10 and the 11 of test/world.cpp.
Vals == {10, 11}

nullopt == << >>
Some(v) == <<v>>
Optionals == {nullopt} \cup {Some(v) : v \in Vals}

Max(a, b) == IF a >= b THEN a ELSE b

\* ------------------------------------------------- vector_store (dense)
\* std::vector::resize(n): truncates, or appends value-initialised (empty)
\* optionals.
vs_resize(e, n) ==
  IF n <= Len(e) THEN SubSeq(e, 1, n)
  ELSE e \o [k \in 1..(n - Len(e)) |-> nullopt]

\* resizeToFit without the std::max: elements.resize(id + 1).
vs_resizeToFitExact(e, id) == vs_resize(e, id + 1)

vs_resizeToFit(e, id) == vs_resize(e, Max(Len(e), id + 1))

\* hasComponent answering for the slot being there, not for its value
\* (return id < elements.size();).
vs_hasComponentInRange(e, id) == id < Len(e)

vs_hasComponent(e, id) ==
  IF id >= Len(e) THEN FALSE ELSE e[id + 1] # nullopt

vs_getSafe(e, id) ==
  IF id >= Len(e) THEN nullopt ELSE e[id + 1]

\* The outcomes of getUnsafe: elements.at(id) throws std::out_of_range when id
\* is out of range; operator* on an empty optional is undefined behaviour, so
\* any value or a failure may come out of it.
Thrown == [kind |-> "throw", val |-> 0]
Returned(v) == [kind |-> "value", val |-> v]
vs_getUnsafe(e, id) ==
  IF id >= Len(e) THEN {Thrown}
  ELSE IF e[id + 1] = nullopt THEN {Thrown} \cup {Returned(v) : v \in Vals}
  ELSE {Returned(e[id + 1][1])}

\* addComponent setting the slot the way moveComponent does, with
\* elements.emplace(elements.begin() + id, comp).
vs_addComponentEmplace(e, id, comp) ==
  LET r == IF Len(e) <= id THEN vs_resize(e, id + 1) ELSE e
  IN  SubSeq(r, 1, id) \o <<Some(comp)>> \o SubSeq(r, id + 1, Len(r))

vs_addComponent(e, id, comp) ==
  LET r == IF Len(e) <= id THEN vs_resize(e, id + 1) ELSE e
  IN  [r EXCEPT ![id + 1] = Some(comp)]

\* elements.emplace(elements.begin() + id, t2) inserts a new slot before
\* position id: the slots from id on move up by one.
vs_moveComponent(e, id, t2) ==
  LET r == IF Len(e) <= id THEN vs_resize(e, id + 1) ELSE e
  IN  SubSeq(r, 1, id) \o <<Some(t2)>> \o SubSeq(r, id + 1, Len(r))

\* removeComponent taking the slot out of the vector
\* (elements.erase(elements.begin() + id)), so that the later slots move down.
vs_removeComponentErase(e, id) ==
  IF Len(e) <= id THEN e ELSE SubSeq(e, 1, id) \o SubSeq(e, id + 2, Len(e))

vs_removeComponent(e, id) ==
  IF Len(e) <= id THEN e ELSE [e EXCEPT ![id + 1] = nullopt]

\* --------------------------------------- unordered_map_store (sparse)
um_resizeToFit(m, id) == m

um_hasComponent(m, id) == id \in DOMAIN m

\* getSafe returns the found entry (written `return *it;` in the source); the
\* value of the entry is what an optional<T> can hold of it.
um_getSafe(m, id) ==
  IF id \in DOMAIN m THEN Some(m[id]) ELSE nullopt

\* map.at(id) throws std::out_of_range when the key is missing.
um_getUnsafe(m, id) ==
  IF id \in DOMAIN m THEN {Returned(m[id])} ELSE {Thrown}

\* std::unordered_map::emplace inserts only when the key is not there yet.
um_emplace(m, id, v) ==
  IF id \in DOMAIN m THEN m ELSE (id :> v) @@ m

um_addComponent(m, id, comp) == um_emplace(m, id, comp)

um_moveComponent(m, id, t2) == um_emplace(m, id, t2)

um_removeComponent(m, id) == [k \in (DOMAIN m) \ {id} |-> m[k]]

EmptyMap == [k \in {} |-> 0]

\* ---------------------------------------------------------------- world
\* world<vector_store<int>, vector_store<float>>: one dense store per
\* component type, and the entity counter lastId (0 after construction).
Components == {"int", "float"}

NewWorld == [stores |-> [c \in Components |-> << >>], lastId |-> 0]

\* world<vector_store<int>, unordered_map_store<double>>: the world template
\* over one store of each kind.  The component types kept in a sparse store:
SparseComponents == {"double"}
MixedComponents == {"int", "double"}
NewMixedWorld ==
  [stores |-> [c \in MixedComponents |->
                 IF c \in SparseComponents THEN EmptyMap ELSE << >>],
   lastId |-> 0]

\* Stores::resizeToFit(id) of the store s of the component type c.
resizeToFit(c, s, id) ==
  IF c \in SparseComponents THEN um_resizeToFit(s, id) ELSE vs_resizeToFit(s, id)

\* newEntity with the counter left where it was (return lastId;).
newEntityNoAdvance(w) ==
  [w   |-> [stores |-> [c \in DOMAIN w.stores |-> resizeToFit(c, w.stores[c], w.lastId)],
            lastId |-> w.lastId],
   ret |-> w.lastId]

\* (Stores::resizeToFit(lastId), ...); return lastId++;
newEntity(w) ==
  [w   |-> [stores |-> [c \in DOMAIN w.stores |-> resizeToFit(c, w.stores[c], w.lastId)],
            lastId |-> w.lastId + 1],
   ret |-> w.lastId]

maxId(w) == w.lastId + 1

\* operator<=> is defaulted: the stores are compared slot by slot (as vectors
\* of optionals, so their lengths count), then lastId.
world_eq(a, b) ==
  /\ \A c \in Components :
       /\ Len(a.stores[c]) = Len(b.stores[c])
       /\ \A k \in 1..Len(a.stores[c]) : a.stores[c][k] = b.stores[c][k]
  /\ a.lastId = b.lastId

\* The store operations re-exported by the world (using Stores::...), found by
\* the component type.
hasComponent(w, c, id) ==
  IF c \in SparseComponents THEN um_hasComponent(w.stores[c], id)
  ELSE vs_hasComponent(w.stores[c], id)
getSafe(w, c, id) ==
  IF c \in SparseComponents THEN um_getSafe(w.stores[c], id)
  ELSE vs_getSafe(w.stores[c], id)
getUnsafe(w, c, id) ==
  IF c \in SparseComponents THEN um_getUnsafe(w.stores[c], id)
  ELSE vs_getUnsafe(w.stores[c], id)
\* addComponent re-exported from a store that sets the slot with vector emplace.
addComponentEmplace(w, c, id, comp) ==
  [w EXCEPT !.stores[c] = vs_addComponentEmplace(@, id, comp)]

addComponent(w, c, id, comp) ==
  [w EXCEPT !.stores[c] = IF c \in SparseComponents THEN um_addComponent(@, id, comp)
                          ELSE vs_addComponent(@, id, comp)]
moveComponent(w, c, id, t2) ==
  [w EXCEPT !.stores[c] = IF c \in SparseComponents THEN um_moveComponent(@, id, t2)
                          ELSE vs_moveComponent(@, id, t2)]
removeComponent(w, c, id) ==
  [w EXCEPT !.stores[c] = IF c \in SparseComponents THEN um_removeComponent(@, id)
                          ELSE vs_removeComponent(@, id)]

\* A requested type is a component type or optional<component type>.
OptionalTypes == {"optional<int>", "optional<float>"}
Inner(t) == IF t = "optional<int>" THEN "int" ELSE "float"

\* hasComponent<optional<F>> answering for F itself: the branch for optional
\* types left out.
hasComponentInner(w, t, id) ==
  IF t \in OptionalTypes THEN hasComponent(w, Inner(t), id) ELSE hasComponent(w, t, id)

\* hasComponent<optional<F>> is always true; getUnsafe<optional<F>> is getSafe<F>.
hasComponentT(w, t, id) ==
  IF t \in OptionalTypes THEN TRUE ELSE hasComponent(w, t, id)

getUnsafeT(w, t, id) ==
  IF t \in OptionalTypes THEN {Returned(getSafe(w, Inner(t), id))}
  ELSE getUnsafe(w, t, id)

\* hasAllComponents folding with || where the source folds with &&.
hasAnyComponent(w, elements_, i) ==
  \E k \in 1..Len(elements_) : hasComponentT(w, elements_[k], i)

hasAllComponents(w, elements_, i) ==
  \A k \in 1..Len(elements_) : hasComponentT(w, elements_[k], i)

\* ------------------------------------------------- map result protocol
\* A map result, by the shape of its declared type:
\*   direct    the component type c itself, holding opt[1]
\*   optional  std::optional<c>, holding opt
\*   tuple     std::tuple<F...>, holding elems in declared order
\*   variant   std::variant<F...> with the alternatives alts (the shape and
\*             component of each F), of which number held is the one
\*             populated, holding elems[1]
DirectR(c, v) ==
  [shape |-> "direct", c |-> c, opt |-> Some(v), alts |-> << >>, held |-> 0, elems |-> << >>]
OptionalR(c, o) ==
  [shape |-> "optional", c |-> c, opt |-> o, alts |-> << >>, held |-> 0, elems |-> << >>]
TupleR(es) ==
  [shape |-> "tuple", c |-> "", opt |-> nullopt, alts |-> << >>, held |-> 0, elems |-> es]
VariantR(alts, k, r) ==
  [shape |-> "variant", c |-> "", opt |-> nullopt, alts |-> alts, held |-> k, elems |-> <<r>>]

\* The optional write-back without its else branch: an empty optional removes
\* nothing.
setMapResultOptionalNoRemove(w, id, opt) ==
  IF opt.opt # nullopt THEN addComponent(w, opt.c, id, opt.opt[1]) ELSE w

setMapResultOptional(w, id, opt) ==
  IF opt.opt # nullopt THEN addComponent(w, opt.c, id, opt.opt[1])
  ELSE removeComponent(w, opt.c, id)

\* The direct write-back as an insert that keeps a value already there (what
\* emplace does on the sparse store).
setMapResultDirectNoOverwrite(w, id, r) ==
  IF hasComponent(w, r.c, id) THEN w ELSE addComponent(w, r.c, id, r.opt[1])

setMapResultDirect(w, id, r) == addComponent(w, r.c, id, r.opt[1])

RECURSIVE setMapResult(_, _, _)
RECURSIVE setMapResultTupleDetail(_, _, _, _)
RECURSIVE setMapResultVariantFold(_, _, _, _)

\* The variant write-back without the get_if test: the value held is written
\* as every alternative in turn, converted to it.
setMapResultVariantDetailNoTest(w, id, variant, type) ==
  LET r == variant.elems[1]
      t == variant.alts[type]
  IN  IF t.shape = "direct" /\ r.opt = nullopt THEN w
      ELSE setMapResult(w, id, [r EXCEPT !.shape = t.shape, !.c = t.c])

\* std::get_if<Type>(&variant) is non-null only for the alternative held.
setMapResultVariantDetail(w, id, variant, type) ==
  IF variant.held = type THEN setMapResult(w, id, variant.elems[1]) ELSE w

\* The fold (setMapResultVariantDetail<variant<F...>, F>(id, variant), ...)
\* over the alternatives F, left to right.
setMapResultVariantFold(w, id, variant, type) ==
  IF type > Len(variant.alts) THEN w
  ELSE setMapResultVariantFold(
         setMapResultVariantDetail(w, id, variant, type), id, variant, type + 1)

\* The fold (setMapResult<tuple_element_t<Indexes, Tuple>>(id, get<Indexes>(tuple)), ...)
\* over the indexes, left to right.
setMapResultTupleDetail(w, id, tuple, index) ==
  IF index > Len(tuple.elems) THEN w
  ELSE setMapResultTupleDetail(
         setMapResult(w, id, tuple.elems[index]), id, tuple, index + 1)

setMapResult(w, id, r) ==
  CASE r.shape = "direct"   -> setMapResultDirect(w, id, r)
    [] r.shape = "optional" -> setMapResultOptional(w, id, r)
    [] r.shape = "tuple"    -> setMapResultTupleDetail(w, id, r, 1)
    [] r.shape = "variant"  -> setMapResultVariantFold(w, id, r, 1)

\* ------------------------------------------------------------ mapEntities
\* The values f is called with: getUnsafe<Args>(i) for each requested type.  An
\* outcome that is no single value (a throw, undefined behaviour) makes the
\* pass unsafe.
UnsafeIsValue(w, args, i) ==
  \A k \in 1..Len(args) :
    \E o \in getUnsafeT(w, args[k], i) :
      getUnsafeT(w, args[k], i) = {o} /\ o.kind = "value"

CallArgs(w, args, i) ==
  [k \in 1..Len(args) |-> (CHOOSE o \in getUnsafeT(w, args[k], i) : TRUE).val]

\* The state of a pass: the world, the ids f was called for (in order), the
\* world as it was when each id was reached, and whether every getUnsafe made
\* so far returned a value.
PassStart(w) == [w |-> w, calls |-> << >>, visits |-> << >>, safe |-> TRUE]

\* One turn of the loop body of mapEntities for id i.
mapStep(st, i, args, f) ==
  IF hasAllComponents(st.w, args, i)
  THEN [w      |-> setMapResult(st.w, i, f[CallArgs(st.w, args, i)]),
        calls  |-> Append(st.calls, i),
        visits |-> Append(st.visits, st.w),
        safe   |-> st.safe /\ UnsafeIsValue(st.w, args, i)]
  ELSE [st EXCEPT !.visits = Append(@, st.w)]

\* for(EntityId i = 0; i < w.maxId(); ++i) ...
RECURSIVE mapLoop(_, _, _, _)
mapLoop(st, i, args, f) ==
  IF i < maxId(st.w) THEN mapLoop(mapStep(st, i, args, f), i + 1, args, f)
  ELSE st

mapEntities(w, args, f) == mapLoop(PassStart(w), 0, args, f)

\* The loop body without the test of hasAllComponents: f is called for every id.
mapStepVoidUnchecked(st, i, args) ==
  [st EXCEPT !.calls  = Append(@, i),
             !.visits = Append(@, st.w),
             !.safe   = st.safe /\ UnsafeIsValue(st.w, args, i)]

\* The overload for a function returning void: f is called, nothing is set.
mapStepVoid(st, i, args) ==
  IF hasAllComponents(st.w, args, i)
  THEN [st EXCEPT !.calls  = Append(@, i),
                  !.visits = Append(@, st.w),
                  !.safe   = st.safe /\ UnsafeIsValue(st.w, args, i)]
  ELSE [st EXCEPT !.visits = Append(@, st.w)]

RECURSIVE mapLoopVoid(_, _, _)
mapLoopVoid(st, i, args) ==
  IF i < maxId(st.w) THEN mapLoopVoid(mapStepVoid(st, i, args), i + 1, args)
  ELSE st

mapEntitiesVoid(w, args) == mapLoopVoid(PassStart(w), 0, args)

\* ------------------------------------------------------------------ state
\* Calls are synchronous and one at a time: an operation runs as one step, which
\* leaves a record of the call (the operation, its arguments, the state it
\* started from); the step that follows hands control back to the caller and
\* drops the record.
VARIABLES
  elements,      \* vector_store::elements of the dense store under test
  map,           \* unordered_map_store::map of the sparse store under test
  storeOp,       \* the call just made on the two stores, if any
  prevElements,  \* elements before that call
  prevMap,       \* map before that call
  w1,            \* the world
  w2,            \* the copy made of it (meaningful once copied)
  copied,        \* whether w2 has been copy-constructed from w1
  snap,          \* w1 as it was when the copy was made
  worldOp,       \* the call just made on the world, if any
  prevW,         \* the world operated on, before that call
  pass,          \* the record of the mapEntities pass just made
  issued,        \* the ids returned by newEntity, in order
  nops           \* the number of operations applied to the copy

storeVars == <<elements, map, storeOp, prevElements, prevMap>>
worldVars == <<w1, w2, copied, snap, worldOp, prevW, pass, issued, nops>>
vars == <<elements, map, storeOp, prevElements, prevMap,
          w1, w2, copied, snap, worldOp, prevW, pass, issued, nops>>

NoStoreOp == [op |-> "none", id |-> 0, v |-> 0]
NoFn == << >>
NoWorldOp == [op |-> "none", c |-> "", id |-> 0, v |-> 0, args |-> << >>, f |-> NoFn]
WorldOp(op, c, id, v, args, f) ==
  [op |-> op, c |-> c, id |-> id, v |-> v, args |-> args, f |-> f]
NoPass == PassStart(NewWorld)

Init ==
  /\ elements = << >>
  /\ map = EmptyMap
  /\ storeOp = NoStoreOp
  /\ prevElements = << >>
  /\ prevMap = EmptyMap
  /\ w1 = NewWorld
  /\ w2 = NewWorld
  /\ copied = FALSE
  /\ snap = NewWorld
  /\ worldOp = NoWorldOp
  /\ prevW = NewWorld
  /\ pass = NoPass
  /\ issued = << >>
  /\ nops = 0

\* ------------------------------------------------- the two stores, replayed
\* Every operation is applied to the dense store and to the sparse store alike.
StoreStep(op, id, v, e, m) ==
  /\ storeOp = NoStoreOp
  /\ elements' = e
  /\ map' = m
  /\ storeOp' = [op |-> op, id |-> id, v |-> v]
  /\ prevElements' = elements
  /\ prevMap' = map
  /\ UNCHANGED worldVars

StoreAdd ==
  \E id \in Ids, v \in Vals :
    StoreStep("add", id, v, vs_addComponent(elements, id, v), um_addComponent(map, id, v))

StoreMove ==
  \E id \in Ids, v \in Vals :
    /\ Len(vs_moveComponent(elements, id, v)) <= MaxLen
    /\ StoreStep("move", id, v, vs_moveComponent(elements, id, v),
                 um_moveComponent(map, id, v))

StoreRemove ==
  \E id \in Ids :
    StoreStep("remove", id, 0, vs_removeComponent(elements, id), um_removeComponent(map, id))

StoreResizeToFit ==
  \E id \in Ids :
    StoreStep("resizeToFit", id, 0, vs_resizeToFit(elements, id), um_resizeToFit(map, id))

StoreReturn ==
  /\ storeOp # NoStoreOp
  /\ storeOp' = NoStoreOp
  /\ prevElements' = << >>
  /\ prevMap' = EmptyMap
  /\ UNCHANGED <<elements, map, worldVars>>

NextStore == StoreAdd \/ StoreMove \/ StoreRemove \/ StoreResizeToFit \/ StoreReturn

SpecStore == Init /\ [][NextStore]_vars

\* ---------------------------------------------------------------- the world
\* The world operated on: w1 until the copy is made, the copy w2 after it.
Cur == IF copied THEN w2 ELSE w1

WorldStep(op, new, p) ==
  /\ worldOp = NoWorldOp
  /\ copied => nops < MaxCopyOps
  /\ IF copied THEN w2' = new /\ w1' = w1 ELSE w1' = new /\ w2' = w2
  /\ nops' = IF copied THEN nops + 1 ELSE nops
  /\ worldOp' = op
  /\ prevW' = Cur
  /\ pass' = p
  /\ UNCHANGED <<storeVars, copied, snap>>

NewEntity ==
  /\ Cur.lastId < MaxEntities
  /\ issued' = Append(issued, newEntity(Cur).ret)
  /\ WorldStep(WorldOp("newEntity", "", newEntity(Cur).ret, 0, << >>, NoFn),
               newEntity(Cur).w, NoPass)

AddComponent ==
  \E c \in DOMAIN Cur.stores, id \in Ids, v \in Vals :
    /\ WorldStep(WorldOp("add", c, id, v, << >>, NoFn), addComponent(Cur, c, id, v), NoPass)
    /\ UNCHANGED issued

MoveComponent ==
  \E c \in Components, id \in Ids, v \in Vals :
    /\ Len(moveComponent(Cur, c, id, v).stores[c]) <= MaxLen
    /\ WorldStep(WorldOp("move", c, id, v, << >>, NoFn), moveComponent(Cur, c, id, v), NoPass)
    /\ UNCHANGED issued

RemoveComponent ==
  \E c \in DOMAIN Cur.stores, id \in Ids :
    /\ WorldStep(WorldOp("remove", c, id, 0, << >>, NoFn), removeComponent(Cur, c, id), NoPass)
    /\ UNCHANGED issued

\* The transforms handed to mapEntities<C>: every function of the value of C.
ArgTuples == {<<v>> : v \in Vals}
\* C f(C): the declared result is the component type itself.
ReplaceFns(c) == [ArgTuples -> {DirectR(c, v) : v \in Vals}]
\* std::optional<C> f(C)
OptionalFns(c) == [ArgTuples -> {OptionalR(c, o) : o \in Optionals}]
\* std::variant<std::optional<int>, float> f(int), as in main
VariantAlts ==
  <<[shape |-> "optional", c |-> "int"], [shape |-> "direct", c |-> "float"]>>
VariantResults ==
  {VariantR(VariantAlts, 1, OptionalR("int", o)) : o \in Optionals}
    \cup {VariantR(VariantAlts, 2, DirectR("float", v)) : v \in Vals}
VariantFns == [ArgTuples -> VariantResults]

\* What is kept of a pass once the world holds its result.
PassRecord(st) == [st EXCEPT !.w = NewWorld]

MapReplace ==
  \E c \in Components : \E f \in ReplaceFns(c) :
    /\ WorldStep(WorldOp("mapReplace", c, 0, 0, <<c>>, f),
                 mapEntities(Cur, <<c>>, f).w, PassRecord(mapEntities(Cur, <<c>>, f)))
    /\ UNCHANGED issued

MapOptional ==
  \E c \in Components : \E f \in OptionalFns(c) :
    /\ WorldStep(WorldOp("mapOptional", c, 0, 0, <<c>>, f),
                 mapEntities(Cur, <<c>>, f).w, PassRecord(mapEntities(Cur, <<c>>, f)))
    /\ UNCHANGED issued

MapVariant ==
  \E f \in VariantFns :
    /\ WorldStep(WorldOp("mapVariant", "int", 0, 0, <<"int">>, f),
                 mapEntities(Cur, <<"int">>, f).w,
                 PassRecord(mapEntities(Cur, <<"int">>, f)))
    /\ UNCHANGED issued

\* mapEntities<Args...>(w, f) with void f(Args...), as printEach in main.
VoidArgLists == {<<"int">>, <<"float">>, <<"int", "float">>}
MapVoid ==
  \E args \in VoidArgLists :
    /\ WorldStep(WorldOp("mapVoid", "", 0, 0, args, NoFn), mapEntitiesVoid(Cur, args).w,
                 PassRecord(mapEntitiesVoid(Cur, args)))
    /\ UNCHANGED issued

\* mapEntities with std::optional<C> among the requested types and void f.
OptionalArgLists ==
  {<<"optional<int>">>, <<"int", "optional<float>">>,
   <<"optional<int>", "optional<float>">>}
MapVoidOptional ==
  \E args \in OptionalArgLists :
    /\ WorldStep(WorldOp("mapVoidOptional", "", 0, 0, args, NoFn),
                 mapEntitiesVoid(Cur, args).w, PassRecord(mapEntitiesVoid(Cur, args)))
    /\ UNCHANGED issued

\* mapEntities<std::optional<C>>(w, f) with std::optional<C> f(std::optional<C>):
\* f is called for every id below maxId() and may give C to an id without it.
OptionalOf(c) == IF c = "int" THEN "optional<int>" ELSE "optional<float>"
OptionalArgTuples == {<<o>> : o \in Optionals}
OptionalArgFns(c) == [OptionalArgTuples -> {OptionalR(c, o) : o \in Optionals}]
MapOptionalArg ==
  \E c \in Components : \E f \in OptionalArgFns(c) :
    /\ WorldStep(WorldOp("mapOptionalArg", c, 0, 0, <<OptionalOf(c)>>, f),
                 mapEntities(Cur, <<OptionalOf(c)>>, f).w,
                 PassRecord(mapEntities(Cur, <<OptionalOf(c)>>, f)))
    /\ Len(mapEntities(Cur, <<OptionalOf(c)>>, f).w.stores[c]) <= MaxLen
    /\ UNCHANGED issued

\* Control is back with the caller.
Return ==
  /\ worldOp # NoWorldOp
  /\ worldOp' = NoWorldOp
  /\ prevW' = NewWorld
  /\ pass' = NoPass
  /\ UNCHANGED <<storeVars, w1, w2, copied, snap, issued, nops>>

Next ==
  \/ NewEntity
  \/ AddComponent
  \/ MoveComponent
  \/ RemoveComponent
  \/ MapReplace
  \/ MapOptional
  \/ MapVariant
  \/ MapVoid
  \/ MapVoidOptional
  \/ MapOptionalArg
  \/ Return

Spec == Init /\ [][Next]_vars

\* ------------------------------------------- a world over both store kinds
\* The same operations on world<vector_store<int>, unordered_map_store<double>>,
\* with passes whose transform returns std::tuple<C, C>.
InitTuple ==
  /\ elements = << >>
  /\ map = EmptyMap
  /\ storeOp = NoStoreOp
  /\ prevElements = << >>
  /\ prevMap = EmptyMap
  /\ w1 = NewMixedWorld
  /\ w2 = NewWorld
  /\ copied = FALSE
  /\ snap = NewWorld
  /\ worldOp = NoWorldOp
  /\ prevW = NewWorld
  /\ pass = NoPass
  /\ issued = << >>
  /\ nops = 0

\* std::tuple<C, C> f(A): every function of the value of A.
TupleResults(c) == {TupleR(<<DirectR(c, x), DirectR(c, y)>>) : x, y \in Vals}
TupleFns(c) == [ArgTuples -> TupleResults(c)]

MapTuple ==
  \E a \in DOMAIN Cur.stores, c \in DOMAIN Cur.stores : \E f \in TupleFns(c) :
    /\ WorldStep(WorldOp("mapTuple", c, 0, 0, <<a>>, f),
                 mapEntities(Cur, <<a>>, f).w, PassRecord(mapEntities(Cur, <<a>>, f)))
    /\ UNCHANGED issued

NextTuple ==
  \/ NewEntity
  \/ AddComponent
  \/ RemoveComponent
  \/ MapTuple
  \/ Return

SpecTuple == InitTuple /\ [][NextTuple]_vars

\* ------------------------------------------------------------ world copies
\* A copy that copies the stores and starts its counter afresh.
WorldCopyFreshCounter(w) ==
  [stores |-> [c \in Components |-> [k \in 1..Len(w.stores[c]) |-> w.stores[c][k]]],
   lastId |-> 0]

\* world has value semantics: the implicit copy constructor copies every store
\* (a std::vector, which copies its elements) and lastId.
WorldCopy(w) ==
  [stores |-> [c \in Components |-> [k \in 1..Len(w.stores[c]) |-> w.stores[c][k]]],
   lastId |-> w.lastId]

Copy ==
  /\ worldOp = NoWorldOp
  /\ ~copied
  /\ w2' = WorldCopy(w1)
  /\ copied' = TRUE
  /\ snap' = w1
  /\ worldOp' = WorldOp("copy", "", 0, 0, << >>, NoFn)
  /\ prevW' = w1
  /\ UNCHANGED <<storeVars, w1, pass, issued, nops>>

NextCopy == Next \/ Copy

SpecCopy == Init /\ [][NextCopy]_vars

\* ================================================================= claims
\* The ids a query may be asked about: those the operations take, and beyond.
QueryIds == 0..(MaxLen + 1)

\* ------------------------------------------------------------------- C1
\* C1: immediately after addComponent(id, v), on the dense store and on the
\* sparse store, getSafe(id) = v and hasComponent(id) is true, also when id
\* held another value before.
C1_InsertThenGet ==
  storeOp.op = "add" =>
    /\ vs_getSafe(elements, storeOp.id) = Some(storeOp.v)
    /\ vs_hasComponent(elements, storeOp.id)
    /\ um_getSafe(map, storeOp.id) = Some(storeOp.v)
    /\ um_hasComponent(map, storeOp.id)

\* ------------------------------------------------------------------- C2
\* C2: the dense store after moveComponent(id, v) is the dense store after
\* addComponent(id, v) on the same prior state: slot id holds v, every other
\* id is as before and the slot sequence has the same length.
C2_MoveSameAsAdd ==
  storeOp.op = "move" =>
    elements = vs_addComponent(prevElements, storeOp.id, storeOp.v)

\* ------------------------------------------------------------------- C3
\* C3: after every step of a sequence of operations replayed on an empty dense
\* store and an empty sparse store, hasComponent and getSafe agree on every id,
\* and getUnsafe agrees wherever the component is present.
C3_DenseSparseEquivalent ==
  \A id \in QueryIds :
    /\ vs_hasComponent(elements, id) = um_hasComponent(map, id)
    /\ vs_getSafe(elements, id) = um_getSafe(map, id)
    /\ (vs_hasComponent(elements, id) /\ um_hasComponent(map, id)) =>
         vs_getUnsafe(elements, id) = um_getUnsafe(map, id)

\* ------------------------------------------------------------------- C4
\* C4: whatever operations come in between, every newEntity() call returns an
\* id strictly greater than the id of every earlier call, so no id is returned
\* twice; the id just returned is the last of those issued.
C4_IdMonotonic ==
  /\ \A i, j \in 1..Len(issued) : i < j => issued[i] < issued[j]
  /\ worldOp.op = "newEntity" =>
       /\ Len(issued) > 0
       /\ worldOp.id = issued[Len(issued)]

\* Two entities have been minted, with other operations before the second call.
C4_Witness ==
  /\ worldOp.op = "newEntity"
  /\ Len(issued) = 2
  /\ \E c \in Components : hasComponent(prevW, c, issued[1])

\* ------------------------------------------------------------------- C5
\* C5: in every state of a world the ids below maxId(), which are the ids
\* mapEntities iterates, are exactly the ids newEntity() has returned so far; a
\* freshly constructed world iterates over no ids.
IssuedIds == {issued[k] : k \in 1..Len(issued)}
IteratedIds(w) == {i \in 0..(MaxEntities + 1) : i < maxId(w)}

C5_MaxIdCoversIssued == IteratedIds(Cur) = IssuedIds

\* ------------------------------------------------------------------- C6
\* C6: one pass of mapEntities<Args...>(w, f) reaches every id below maxId()
\* once, in ascending order (every entity minted is among them), and calls f
\* exactly once for an id that holds every component of Args when the pass
\* reaches it, and not at all for an id that lacks one of them.
IsPass == worldOp.op \in {"mapReplace", "mapOptional", "mapVariant", "mapVoid"}
Holds(w, c, id) == getSafe(w, c, id) # nullopt
HoldsAll(w, args, id) == \A k \in 1..Len(args) : Holds(w, args[k], id)
CallsFor(id) == Cardinality({k \in 1..Len(pass.calls) : pass.calls[k] = id})

C6_MapFiltersOnFullPresence ==
  IsPass =>
    /\ Len(pass.visits) = maxId(prevW)
    /\ IssuedIds \subseteq 0..(Len(pass.visits) - 1)
    /\ \A k \in 1..Len(pass.calls) : pass.calls[k] < Len(pass.visits)
    /\ \A id \in 0..(Len(pass.visits) - 1) :
         CallsFor(id) = IF HoldsAll(pass.visits[id + 1], worldOp.args, id) THEN 1 ELSE 0

\* A pass over <int, float> in which one entity holds both, and another holds
\* only one of them.
C6_Witness ==
  /\ worldOp.op = "mapVoid"
  /\ worldOp.args = <<"int", "float">>
  /\ Len(issued) = 2
  /\ \E a, b \in IssuedIds :
       /\ Holds(prevW, "int", a) /\ Holds(prevW, "float", a)
       /\ Holds(prevW, "int", b) /\ ~Holds(prevW, "float", b)
       /\ CallsFor(a) = 1
       /\ CallsFor(b) = 0

\* The world a pass left behind once it had dealt with the id reached k-th.
AfterVisit(k) == IF k < Len(pass.visits) THEN pass.visits[k + 1] ELSE Cur

OptionalReturned(id) ==
  worldOp.f[<<getSafe(pass.visits[id + 1], worldOp.c, id)[1]>>].opt

VariantReturned(id) ==
  worldOp.f[<<getSafe(pass.visits[id + 1], "int", id)[1]>>]

C9_VariantWritesOneStore ==
  worldOp.op = "mapVariant" =>
    \A k \in 1..Len(pass.calls) :
      LET id     == pass.calls[k]
          before == pass.visits[id + 1]
          after  == AfterVisit(id + 1)
          r      == VariantReturned(id)
      IN  IF r.held = 1
          THEN /\ after.stores["float"] = before.stores["float"]
               /\ getSafe(after, "int", id) = r.elems[1].opt
          ELSE /\ after.stores["int"] = before.stores["int"]
               /\ getSafe(after, "float", id) = r.elems[1].opt

\* A pass in which the variant held a float for one entity, whose float changed
\* and whose int stayed, and an optional<int> for another, whose int changed and
\* whose float stayed.
C9_Witness ==
  /\ worldOp.op = "mapVariant"
  /\ \E a, b \in IssuedIds :
       /\ CallsFor(a) = 1 /\ CallsFor(b) = 1
       /\ VariantReturned(a).held = 2
       /\ getSafe(Cur, "float", a) # getSafe(prevW, "float", a)
       /\ getSafe(Cur, "int", a) = getSafe(prevW, "int", a)
       /\ VariantReturned(b).held = 1
       /\ getSafe(Cur, "int", b) # getSafe(prevW, "int", b)
       /\ Holds(prevW, "float", b)
       /\ getSafe(Cur, "float", b) = getSafe(prevW, "float", b)

\* ------------------------------------------------------------------ C10
\* C10: right after w2 is copied from w1, w1 == w2; the operations applied to
\* w2 from then on leave every store of w1 and its counter as they were at the
\* copy; and w1 == w2 is false whenever what w2 stores, or its counter, differs
\* from w1's.
ContentDiffers(a, b) ==
  \/ a.lastId # b.lastId
  \/ \E c \in Components, id \in QueryIds : getSafe(a, c, id) # getSafe(b, c, id)

C11_RemoveIdempotent ==
  storeOp.op = "remove" =>
    /\ ~vs_hasComponent(elements, storeOp.id)
    /\ ~um_hasComponent(map, storeOp.id)
    /\ vs_removeComponent(elements, storeOp.id) = elements
    /\ um_removeComponent(map, storeOp.id) = map
    /\ ~vs_hasComponent(prevElements, storeOp.id) =>
         \A j \in QueryIds :
           /\ vs_hasComponent(elements, j) = vs_hasComponent(prevElements, j)
           /\ vs_getSafe(elements, j) = vs_getSafe(prevElements, j)
    /\ ~um_hasComponent(prevMap, storeOp.id) =>
         \A j \in QueryIds :
           /\ um_hasComponent(map, j) = um_hasComponent(prevMap, j)
           /\ um_getSafe(map, j) = um_getSafe(prevMap, j)

\* A component held on both stores was removed while a later id held one.
C11_Witness ==
  /\ storeOp.op = "remove"
  /\ vs_hasComponent(prevElements, storeOp.id)
  /\ um_hasComponent(prevMap, storeOp.id)
  /\ \E j \in Ids : j > storeOp.id /\ vs_hasComponent(elements, j)

\* ------------------------------------------------------------------ C12
\* C12: in every state of either store and for every id, ids at or beyond the
\* dense store's length too, hasComponent(id) is true exactly when getSafe(id)
\* holds a value (both are total: neither has a failing outcome).
C12_PresenceSymmetry ==
  \A id \in QueryIds :
    /\ vs_hasComponent(elements, id) <=> (vs_getSafe(elements, id) # nullopt)
    /\ um_hasComponent(map, id) <=> (um_getSafe(map, id) # nullopt)

\* The dense store has an empty slot in range below a slot holding a value.
C12_Witness ==
  /\ Len(elements) = MaxLen
  /\ elements[1] = nullopt
  /\ elements[Len(elements)] # nullopt
  /\ DOMAIN map # {}

\* ------------------------------------------------------------------ C13
\* C13: getUnsafe(id) on the dense store, for an id out of range or an id in
\* range whose slot is empty, ends in an error and never returns a component
\* value; so does getUnsafe(id) on the sparse store for a missing key.
C13_GetUnsafeFailsLoudly ==
  \A id \in QueryIds :
    /\ ~vs_hasComponent(elements, id) => vs_getUnsafe(elements, id) = {Thrown}
    /\ ~um_hasComponent(map, id) => um_getUnsafe(map, id) = {Thrown}

\* ------------------------------------------------------------------ C15
\* C15: addComponent(id, v), on either store, leaves getSafe(j) and
\* hasComponent(j) of every other id j as they were, also when the call grows
\* the dense store.
C15_AddLeavesOthers ==
  storeOp.op = "add" =>
    \A j \in QueryIds \ {storeOp.id} :
      /\ vs_getSafe(elements, j) = vs_getSafe(prevElements, j)
      /\ vs_hasComponent(elements, j) = vs_hasComponent(prevElements, j)
      /\ um_getSafe(map, j) = um_getSafe(prevMap, j)
      /\ um_hasComponent(map, j) = um_hasComponent(prevMap, j)

\* addComponent grew the dense store while another id held a value.
C15_Witness ==
  /\ storeOp.op = "add"
  /\ Len(elements) > Len(prevElements)
  /\ \E j \in Ids : j # storeOp.id /\ vs_hasComponent(prevElements, j)

\* ------------------------------------------------------------------ C14
\* What the store of c holds for id, read off the vector itself.
SlotOf(w, c, id) ==
  IF id < Len(w.stores[c]) THEN w.stores[c][id + 1] ELSE nullopt

\* In every state of the world and for every id, ids never issued and ids
\* beyond the stores too: hasComponent<optional<C>>(id) is true,
\* getUnsafe<optional<C>>(id) returns, without an error, the optional that
\* getSafe<C>(id) returns, and hasComponent<C>(id) tells whether C is there.
C14_OptionalOverReal ==
  \A t \in OptionalTypes : \A id \in QueryIds :
    /\ hasComponentT(Cur, t, id)
    /\ getUnsafeT(Cur, t, id) = {Returned(SlotOf(Cur, Inner(t), id))}
    /\ getUnsafeT(Cur, t, id) = {Returned(getSafe(Cur, Inner(t), id))}
    /\ hasComponentT(Cur, Inner(t), id) <=> (SlotOf(Cur, Inner(t), id) # nullopt)

\* C14 (as stated): the above, and hasComponent<C> is false for the entity
\* newEntity has just returned.
C14_FreshEntityHoldsNothing ==
  /\ C14_OptionalOverReal
  /\ worldOp.op = "newEntity" =>
       \A c \in Components : ~hasComponentT(Cur, c, worldOp.id)

\* C14 (amended): in every state of the world and for every id,
\* hasComponent<optional<C>>(id) is true and getUnsafe<optional<C>>(id) returns
\* exactly getSafe<C>(id) without an error, while hasComponent<C>(id) tells
\* whether C is there: it is false for the entity newEntity has just returned
\* unless C was stored under that id before the id was issued.
C14_OptionalPseudoComponent ==
  /\ C14_OptionalOverReal
  /\ worldOp.op = "newEntity" =>
       \A c \in Components :
         hasComponentT(Cur, c, worldOp.id) <=> hasComponent(prevW, c, worldOp.id)

\* newEntity has just returned an entity that holds int and no float, so that
\* the optional of each is there and only getUnsafe<optional<float>> is empty.
C14_Witness ==
  /\ worldOp.op = "newEntity"
  /\ hasComponentT(Cur, "int", worldOp.id)
  /\ ~hasComponentT(Cur, "float", worldOp.id)
  /\ hasComponentT(Cur, "optional<float>", worldOp.id)
  /\ getUnsafeT(Cur, "optional<float>", worldOp.id) = {Returned(nullopt)}
  /\ getUnsafeT(Cur, "optional<int>", worldOp.id) # {Returned(nullopt)}

\* ------------------------------------------------------------------ C16
IsAnyPass ==
  worldOp.op \in {"mapReplace", "mapOptional", "mapVariant", "mapVoid",
                  "mapVoidOptional", "mapOptionalArg"}

\* C16: in a pass of mapEntities from any state of the world (ids issued and
\* not, components there and not, optional<C> among the requested types),
\* every getUnsafe is made for an id that holds the component asked for, so
\* that each returns a value, and the pass ends having reached each id below
\* maxId() once, in order, with no error.
C16_MapNeverFailsGetUnsafe ==
  IsAnyPass =>
    /\ pass.safe
    /\ Len(pass.visits) = maxId(prevW)
    /\ \A k \in 1..Len(pass.calls) :
         /\ pass.calls[k] < maxId(prevW)
         /\ k > 1 => pass.calls[k - 1] < pass.calls[k]
         /\ \A a \in 1..Len(worldOp.args) :
              worldOp.args[a] \in Components =>
                SlotOf(pass.visits[pass.calls[k] + 1], worldOp.args[a], pass.calls[k])
                  # nullopt

\* A pass over <int, optional<float>> of a world with two entities issued: all
\* three ids below maxId() were reached, and f was called for an entity with
\* int and no float and not for an entity with float and no int.
C16_Witness ==
  /\ worldOp.op = "mapVoidOptional"
  /\ worldOp.args = <<"int", "optional<float>">>
  /\ Len(issued) = 2
  /\ Len(pass.visits) = 3
  /\ \E a, b \in IssuedIds :
       /\ CallsFor(a) = 1 /\ SlotOf(prevW, "float", a) = nullopt
       /\ CallsFor(b) = 0 /\ SlotOf(prevW, "float", b) # nullopt

\* ------------------------------------------------------------------ C18
\* C18: in every state of the world, whatever the order of newEntity,
\* addComponent, moveComponent, removeComponent and mapEntities so far, each
\* dense store of the world is longer than every id newEntity has returned,
\* and no operation (no step of a pass either) leaves a store shorter than it
\* found it.
C18_CapacityCoversIssued ==
  \A c \in Components :
    /\ \A e \in IssuedIds : Len(Cur.stores[c]) > e
    /\ worldOp # NoWorldOp => Len(Cur.stores[c]) >= Len(prevW.stores[c])
    /\ IsAnyPass =>
         \A k \in 1..Len(pass.visits) :
           Len(AfterVisit(k).stores[c]) >= Len(pass.visits[k].stores[c])

\* newEntity returned the second id: the int store grew to hold it, and the
\* float store, already long enough, was left as long as it was.
C18_Witness ==
  /\ worldOp.op = "newEntity"
  /\ Len(issued) = 2
  /\ Len(Cur.stores["int"]) > Len(prevW.stores["int"])
  /\ Len(prevW.stores["float"]) > worldOp.id
  /\ Len(Cur.stores["float"]) = Len(prevW.stores["float"])

\* ------------------------------------------------------------------ C19
IsVoidPass == worldOp.op \in {"mapVoid", "mapVoidOptional"}

\* The update of entity id alone, made on the world w0: the write-back of what
\* f returns for the components id holds in w0, if id is below maxId() and
\* holds all of them.
PerEntity(w0, id) ==
  IF IsVoidPass \/ id >= maxId(w0) \/ ~hasAllComponents(w0, worldOp.args, id) THEN w0
  ELSE setMapResult(w0, id, worldOp.f[CallArgs(w0, worldOp.args, id)])

\* The updates of the ids from i on, each computed from w0 and written to acc.
RECURSIVE ApplySeparately(_, _, _)
ApplySeparately(w0, acc, i) ==
  IF i >= maxId(w0) THEN acc
  ELSE ApplySeparately(
         w0,
         IF IsVoidPass \/ ~hasAllComponents(w0, worldOp.args, i) THEN acc
         ELSE setMapResult(acc, i, worldOp.f[CallArgs(w0, worldOp.args, i)]),
         i + 1)

\* C19: after one pass of mapEntities<Args...>(w, f) over the (dense) world:
\* an entity that lacked a requested component when the pass reached it has
\* every component as before the pass; the write-back for an id changes no
\* component of any other id; lastId is as before; and so the world left by
\* the pass is the one got by updating each entity that qualifies in the
\* initial world on its own, from its own components in the initial world.
C19_MapIndependent ==
  IsAnyPass =>
    /\ Cur.lastId = prevW.lastId
    /\ \A id \in QueryIds : \A c \in Components :
         /\ (id >= Len(pass.visits)
               \/ ~hasAllComponents(pass.visits[id + 1], worldOp.args, id))
              => SlotOf(Cur, c, id) = SlotOf(prevW, c, id)
         /\ SlotOf(Cur, c, id) = SlotOf(PerEntity(prevW, id), c, id)
    /\ \A k \in 1..Len(pass.visits) : \A j \in QueryIds \ {k - 1} :
         \A c \in Components :
           SlotOf(AfterVisit(k), c, j) = SlotOf(pass.visits[k], c, j)
    /\ world_eq(Cur, ApplySeparately(prevW, prevW, 0))

\* A pass over int that changed the int of the first entity issued and removed
\* the int of the id after the last one issued, while the second entity, with
\* float and no int, was left as it was.
C19_Witness ==
  /\ worldOp.op = "mapOptional"
  /\ worldOp.c = "int"
  /\ issued = <<0, 1>>
  /\ CallsFor(0) = 1 /\ CallsFor(1) = 0
  /\ SlotOf(Cur, "int", 0) # nullopt
  /\ SlotOf(Cur, "int", 0) # SlotOf(prevW, "int", 0)
  /\ SlotOf(prevW, "float", 1) # nullopt
  /\ SlotOf(Cur, "float", 1) = SlotOf(prevW, "float", 1)

\* ------------------------------------------------------------------ C20
\* C20: from any state of the world in which id does not hold C (an id beyond
\* the length of the store of C too), addComponent<C>(id, v) followed by
\* removeComponent<C>(id) leaves a world that compares equal (operator==) to
\* the world before the two calls.
C20_AddThenRemoveRestores ==
  \A c \in Components : \A id \in Ids : \A v \in Vals :
    ~hasComponent(Cur, c, id) =>
      world_eq(removeComponent(addComponent(Cur, c, id, v), c, id), Cur)

\* ------------------------------------------------------------------ C17
\* What f returned for id in the pass just made.
TupleReturned(id) ==
  worldOp.f[CallArgs(pass.visits[id + 1], worldOp.args, id)]

\* C17: the write-back of a std::tuple<C, C> result holding a then b leaves the
\* entity holding C = b, whether C is kept in a dense or in a sparse store and
\* whether or not the entity held C before.
C17_TupleLaterElementWins ==
  worldOp.op = "mapTuple" =>
    \A k \in 1..Len(pass.calls) :
      getSafe(AfterVisit(pass.calls[k] + 1), worldOp.c, pass.calls[k])
        = TupleReturned(pass.calls[k]).elems[2].opt

====
